---- MODULE Spec2Model ----
(***************************************************************************)
(* Model of torchio's composition transforms (Compose, OneOf) and of the   *)
(* KeepLargestComponent label transform.                                   *)
(*                                                                         *)
(* Three independent state machines share the module; each has its own     *)
(* specification (SpecCompose, SpecOneOf, SpecKLC) that leaves the other   *)
(* machines' variables untouched.                                          *)
(***************************************************************************)
EXTENDS Integers, Sequences, FiniteSets, TLC

VARIABLES
    \* ---- Compose ----
    c_transforms,   \* self.transform.transforms
    c_p,            \* self.p, in halves (0 = 0.0, 1 = 0.5, 2 = 1.0)
    c_seeds,        \* self.seeds
    c_pc,           \* position of the current call: idle / apply / done
    c_sample,       \* local `sample` of apply_transform
    c_i,            \* position of the zip iterator of apply_transform
    c_data,         \* argument `data` of the current call
    c_seedsArg,     \* argument `seeds` of the current call
    c_gen,          \* seeds produced by gen_seed() in the current call
    c_skipped,      \* the call returned its input without applying
    c_result,       \* value returned by the current call
    \* ---- OneOf ----
    o_status,       \* new / ok / error class raised by __init__
    o_input,        \* the `transforms` argument given to __init__
    o_dict,         \* self.transforms_dict (ordered: sequence of <<key, value>>)
    o_sample,       \* argument of the last apply_transform
    o_calls,        \* transforms invoked by the last apply_transform
    o_result,       \* value returned by the last apply_transform
    o_applied,      \* apply_transform has run
    \* ---- KeepLargestComponent ----
    k_subject,      \* label images of the subject (tensors)
    k_prev,         \* the subject as it was before the last call
    k_calls,        \* number of calls of apply_transform so far (capped)
    k_status        \* ok, or the exception the last call raised

c_vars == <<c_transforms, c_p, c_seeds, c_pc, c_sample, c_i, c_data,
            c_seedsArg, c_gen, c_skipped, c_result>>
o_vars == <<o_status, o_input, o_dict, o_sample, o_calls, o_result, o_applied>>
k_vars == <<k_subject, k_prev, k_calls, k_status>>
vars == <<c_vars, o_vars, k_vars>>

(***************************************************************************)
(* Bounds                                                                  *)
(***************************************************************************)
NumTransforms == 2      \* distinct transform instances
MaxLen == 2             \* longest transform / seed list
NumSeeds == 2           \* distinct seed values

TransformIds == 1..NumTransforms
SeedVals == 1..NumSeeds

SeqsUpTo(S, n) == UNION {[1..k -> S] : k \in 0..n}

Min(a, b) == IF a < b THEN a ELSE b

Front(s) == SubSeq(s, 1, Len(s) - 1)

(***************************************************************************)
(* Samples.  A transform is an opaque callable; a sample is modelled by    *)
(* the trace of the calls that produced it, so that two samples are equal  *)
(* exactly when the same transforms were applied with the same seeds in    *)
(* the same order.                                                         *)
(***************************************************************************)
NoSeed == 0

CallTransform(t, sample, s) == Append(sample, <<t, s>>)

DataVals == {<< >>, << <<0, NoSeed>> >>}

(***************************************************************************)
(* Compose                                                                 *)
(***************************************************************************)
NoSeedsArg == [given |-> FALSE, val |-> << >>]

SeedsArgs == {NoSeedsArg} \cup
             {[given |-> TRUE, val |-> ss] : ss \in SeqsUpTo(SeedVals, MaxLen)}

\* `not seeds`: None and the empty list are both falsy
SeedsFalsy(arg) == ~arg.given \/ arg.val = << >>

\* [gen_seed() for _ in range(len(self.transform.transforms))]: the lists
\* of seeds it can produce
GenSeeds(n) == [1..n -> SeedVals]

PVals == 0..2
RandVals == 0..1        \* torch.rand(1) in [0, 1): 0.0 or 0.5, in halves

\* Transform.__call__: the transform is applied with probability p
TransformSkips(r, p) == r > p

\* zip(self.transform.transforms, self.seeds): length of the shorter one
ZipLen(ts, ss) == Min(Len(ts), Len(ss))

ZipSeedShifted(ss, i) == ss[(i % Len(ss)) + 1]

\* the seed zip pairs with the i-th transform
ZipSeed(ss, i) == ss[i]

\* the transform zip pairs with the i-th seed
ZipTransform(ts, ss, i) == ts[i]

ComposeInit ==
    /\ c_transforms \in SeqsUpTo(TransformIds, MaxLen)
    /\ c_p \in PVals
    /\ c_seeds = << >>
    /\ c_pc = "idle"
    /\ c_sample = << >>
    /\ c_i = 0
    /\ c_data = << >>
    /\ c_seedsArg = NoSeedsArg
    /\ c_gen = << >>
    /\ c_skipped = FALSE
    /\ c_result = << >>

\* Compose.__call__ on an empty composition: the data is returned as is
ComposeCallEmpty(data, seeds) ==
    /\ c_pc = "idle"
    /\ c_transforms = << >>
    /\ c_data' = data
    /\ c_seedsArg' = seeds
    /\ c_gen' = << >>
    /\ c_skipped' = FALSE
    /\ c_result' = data
    /\ c_pc' = "done"
    /\ UNCHANGED <<c_transforms, c_p, c_seeds, c_sample, c_i>>
    /\ UNCHANGED <<o_vars, k_vars>>

\* Compose.__call__ up to the entry of apply_transform
ComposeCall(data, seeds, r) ==
    /\ c_pc = "idle"
    /\ c_transforms # << >>
    /\ c_data' = data
    /\ c_seedsArg' = seeds
    /\ IF SeedsFalsy(seeds)
         THEN \E gen \in GenSeeds(Len(c_transforms)) :
                /\ c_gen' = gen
                /\ c_seeds' = gen
         ELSE /\ c_gen' = << >>
              /\ c_seeds' = seeds.val
    /\ IF TransformSkips(r, c_p)
         THEN /\ c_skipped' = TRUE
              /\ c_result' = data
              /\ c_pc' = "done"
              /\ UNCHANGED <<c_sample, c_i>>
         ELSE /\ c_skipped' = FALSE
              /\ c_sample' = data
              /\ c_i' = 1
              /\ c_pc' = "apply"
              /\ UNCHANGED c_result
    /\ UNCHANGED <<c_transforms, c_p>>
    /\ UNCHANGED <<o_vars, k_vars>>

\* one iteration of the loop of Compose.apply_transform
ComposeApplyStep ==
    /\ c_pc = "apply"
    /\ c_i <= ZipLen(c_transforms, c_seeds)
    /\ c_sample' = CallTransform(ZipTransform(c_transforms, c_seeds, c_i),
                                 c_sample,
                                 ZipSeed(c_seeds, c_i))
    /\ c_i' = c_i + 1
    /\ UNCHANGED <<c_transforms, c_p, c_seeds, c_pc, c_data, c_seedsArg,
                   c_gen, c_skipped, c_result>>
    /\ UNCHANGED <<o_vars, k_vars>>

\* `return sample` of Compose.apply_transform
ComposeApplyReturn ==
    /\ c_pc = "apply"
    /\ c_i > ZipLen(c_transforms, c_seeds)
    /\ c_result' = c_sample
    /\ c_pc' = "done"
    /\ UNCHANGED <<c_transforms, c_p, c_seeds, c_sample, c_i, c_data,
                   c_seedsArg, c_gen, c_skipped>>
    /\ UNCHANGED <<o_vars, k_vars>>

\* the caller takes the result; the object is ready for the next call
ComposeNextCall ==
    /\ c_pc = "done"
    /\ c_pc' = "idle"
    /\ c_sample' = << >>
    /\ c_i' = 0
    /\ c_data' = << >>
    /\ c_seedsArg' = NoSeedsArg
    /\ c_gen' = << >>
    /\ c_skipped' = FALSE
    /\ c_result' = << >>
    /\ UNCHANGED <<c_transforms, c_p, c_seeds>>
    /\ UNCHANGED <<o_vars, k_vars>>

ComposeNext ==
    \/ \E data \in DataVals, seeds \in SeedsArgs : ComposeCallEmpty(data, seeds)
    \/ \E data \in DataVals, seeds \in SeedsArgs, r \in RandVals :
            ComposeCall(data, seeds, r)
    \/ ComposeApplyStep
    \/ ComposeApplyReturn
    \/ ComposeNextCall

(***************************************************************************)
(* OneOf                                                                   *)
(***************************************************************************)
MaxWeight == 2          \* largest weight given in a dictionary

NotATransform == 0      \* an object that is not a Transform instance
Keys == {NotATransform} \cup TransformIds
Weights == (-1)..MaxWeight

\* isinstance(transform, Transform)
IsTransform(k) == k \in TransformIds

\* Probabilities are exact fractions <<numerator, denominator>>
RatEq(a, b) == a[1] * b[2] = b[1] * a[2]
RatAdd(a, b) == <<a[1] * b[2] + b[1] * a[2], a[2] * b[2]>>

Range(s) == {s[i] : i \in 1..Len(s)}
Distinct(s) == \A i, j \in 1..Len(s) : i # j => s[i] # s[j]

\* The `transforms` argument: a dictionary (ordered, distinct keys), a
\* sequence, or an object without len()
DictInputs ==
    {[kind |-> "dict", keys |-> ks, weights |-> ws] :
        <<ks, ws>> \in UNION {{ks \in [1..n -> Keys] : Distinct(ks)}
                                \X [1..n -> Weights] : n \in 0..MaxLen}}
SeqInputs ==
    {[kind |-> "seq", keys |-> ks, weights |-> << >>] :
        ks \in SeqsUpTo(Keys, MaxLen)}
NoLenInput == [kind |-> "nolen", keys |-> << >>, weights |-> << >>]
OneOfInputs == DictInputs \cup SeqInputs \cup {NoLenInput}

RECURSIVE SumSeq(_)
\* probabilities.sum()
SumSeq(ws) == IF ws = << >> THEN 0 ELSE ws[1] + SumSeq(Tail(ws))

\* the two ValueError checks of _normalize_probabilities
NormalizeRaises(ws) ==
    \/ \E i \in 1..Len(ws) : ws[i] < 0
    \/ \A i \in 1..Len(ws) : ws[i] = 0

\* the loop of _normalize_probabilities: probability / probabilities.sum()
Normalized(ws) == [i \in 1..Len(ws) |-> <<ws[i], SumSeq(ws)>>]

SeqProbabilityDistinct(ks) == <<1, Cardinality(Range(ks))>>

\* p = 1 / len(transforms)
SeqProbability(ks) == <<1, Len(ks)>>

RECURSIVE DictKeysFromSeq(_)
\* key order of {transform: p for transform in transforms}: a repeated
\* element keeps the position of its first occurrence
DictKeysFromSeq(ks) ==
    IF ks = << >> THEN << >>
    ELSE LET front == DictKeysFromSeq(Front(ks))
             last == ks[Len(ks)]
         IN  IF last \in Range(front) THEN front ELSE Append(front, last)

\* OneOf._get_transforms_dict: the exception raised, or the dictionary
GetTransformsDict(in) ==
    LET pairs(ks, vs) == [i \in 1..Len(ks) |-> <<ks[i], vs[i]>>]
        checked(d) ==
            IF \E i \in 1..Len(d) : ~IsTransform(d[i][1])
              THEN [status |-> "ValueError", dict |-> << >>]
              ELSE [status |-> "ok", dict |-> d]
    IN  CASE in.kind = "dict" ->
                IF NormalizeRaises(in.weights)
                  THEN [status |-> "ValueError", dict |-> << >>]
                  ELSE checked(pairs(in.keys, Normalized(in.weights)))
          [] in.kind = "nolen" ->
                [status |-> "ValueError", dict |-> << >>]
          [] in.kind = "seq" ->
                IF Len(in.keys) = 0
                  THEN [status |-> "ZeroDivisionError", dict |-> << >>]
                  ELSE LET dk == DictKeysFromSeq(in.keys)
                       IN  checked(pairs(dk,
                               [i \in 1..Len(dk) |-> SeqProbability(in.keys)]))

MultinomialAny(weights) == 1..Len(weights)

\* torch.multinomial(weights, 1): an index whose weight is not zero
Multinomial(weights) == {i \in 1..Len(weights) : weights[i][1] > 0}

DictValues(d) == [i \in 1..Len(d) |-> d[i][2]]
DictKeys(d) == [i \in 1..Len(d) |-> d[i][1]]

OneOfInit ==
    /\ o_status = "new"
    /\ o_input = NoLenInput
    /\ o_dict = << >>
    /\ o_sample = << >>
    /\ o_calls = << >>
    /\ o_result = << >>
    /\ o_applied = FALSE

\* OneOf.__init__
OneOfConstruct(in) ==
    /\ o_status = "new"
    /\ o_input' = in
    /\ o_status' = GetTransformsDict(in).status
    /\ o_dict' = GetTransformsDict(in).dict
    /\ UNCHANGED <<o_sample, o_calls, o_result, o_applied>>
    /\ UNCHANGED <<c_vars, k_vars>>

\* OneOf.apply_transform
OneOfApply(sample) ==
    /\ o_status = "ok"
    /\ \E index \in Multinomial(DictValues(o_dict)) :
         LET transform == DictKeys(o_dict)[index]
         IN  /\ o_calls' = << <<transform, sample>> >>
             /\ o_result' = CallTransform(transform, sample, NoSeed)
    /\ o_sample' = sample
    /\ o_applied' = TRUE
    /\ UNCHANGED <<o_status, o_input, o_dict>>
    /\ UNCHANGED <<c_vars, k_vars>>

OneOfNext ==
    \/ \E in \in OneOfInputs : OneOfConstruct(in)
    \/ \E sample \in DataVals : OneOfApply(sample)

(***************************************************************************)
(* KeepLargestComponent                                                    *)
(***************************************************************************)
NX == 3                 \* image size along the first spatial axis
MaxImages == 1          \* most label images in a subject
MaxCalls == 2           \* calls of the transform that are followed

\* the images are strips two voxels wide in a single slice
YRange == {0, 1}
ZRange == {0}
NY == Cardinality(YRange)
NZ == Cardinality(ZRange)

NumVoxels == NX * NY * NZ
Coords == (0..(NX - 1)) \X YRange \X ZRange
Background == 0
Foreground == 1

\* channel 0 of a (C, W, H, D) tensor holding a binary label map
Tensors == [Coords -> {Background, Foreground}]

\* an image: the number of channels of its tensor and the first channel.
\* The transform never reads an image with several channels, so one such
\* image stands for all of them.
MultiChannelImage == [nchan |-> 2, data |-> [c \in Coords |-> Foreground]]
Images == {[nchan |-> 1, data |-> t] : t \in Tensors} \cup {MultiChannelImage}

\* position in the SimpleITK buffer of the pixel at index (x, y, z);
\* x runs fastest
Offset(c) == 1 + c[1] + NX * (c[2] + NY * c[3])

\* index (x, y, z) of the pixel at a position of the SimpleITK buffer
Index(n) ==
    <<(n - 1) % NX, ((n - 1) \div NX) % NY, (n - 1) \div (NX * NY)>>

\* Image.as_sitk: tensor[0][x][y][z] becomes the pixel at index (x, y, z)
AsSitk(tensor) == [n \in 1..NumVoxels |-> tensor[Index(n)]]

\* Transform.sitk_to_nib: the pixel at index (x, y, z) becomes
\* tensor[0][x][y][z]
SitkToNib(img) == [c \in Coords |-> img[Offset(c)]]

\* face neighbours of every buffer position (fullyConnected = False)
Neighbours ==
    [n \in 1..NumVoxels |->
        LET x == Index(n)[1]
            y == Index(n)[2]
            z == Index(n)[3]
        IN  (IF x > 0 THEN {n - 1} ELSE {}) \cup
            (IF x < NX - 1 THEN {n + 1} ELSE {}) \cup
            (IF y > 0 THEN {n - NX} ELSE {}) \cup
            (IF y < NY - 1 THEN {n + NX} ELSE {}) \cup
            (IF z > 0 THEN {n - NX * NY} ELSE {}) \cup
            (IF z < NZ - 1 THEN {n + NX * NY} ELSE {})]

\* `seen` and the pixels of `fg` next to it
Grow(seen, fg) ==
    seen \cup {m \in fg : \E n \in seen : m \in Neighbours[n]}

RECURSIVE Flood(_, _)
\* the pixels of `fg` connected to the pixels of `seen`.  (Here and below,
\* CHOOSE v \in {e(x) : x \in {d}} : TRUE is e(d) with d evaluated once.)
Flood(seen, fg) ==
    CHOOSE object \in {IF more = seen THEN seen ELSE Flood(more, fg) :
                        more \in {Grow(seen, fg)}} : TRUE

\* the objects of `fg`: its maximal face-connected subsets
Objects(fg) == {Flood({n}, fg) : n \in fg}

SetMin(S) == CHOOSE x \in S : \A y \in S : x <= y

\* the label image of a set of objects: an object's label is its position
\* among the objects ordered by their first pixel in the buffer
LabelObjects(img, objects) ==
    [n \in 1..NumVoxels |->
        IF img[n] = 0 THEN 0
        ELSE Cardinality({o \in objects :
                SetMin(o) <= SetMin(CHOOSE p \in objects : n \in p)})]

\* sitk.ConnectedComponent: every connected set of non-zero pixels gets its
\* own label; labels are 1, 2, ... in the order the objects are met in the
\* buffer, and zero pixels stay zero
ConnectedComponent(img) ==
    CHOOSE lab \in
        {LabelObjects(img, objects) :
            objects \in {Objects(fg) :
                fg \in {{n \in 1..NumVoxels : img[n] # 0}}}} : TRUE

\* number of pixels of the object labelled l
ObjectSize(lab, l) == Cardinality({n \in 1..NumVoxels : lab[n] = l})

\* rank of the object labelled l: objects are ordered by decreasing size,
\* objects of the same size by increasing label
ObjectRank(lab, l) ==
    1 + Cardinality({k \in ({lab[n] : n \in 1..NumVoxels} \ {0}) :
            \/ ObjectSize(lab, k) > ObjectSize(lab, l)
            \/ ObjectSize(lab, k) = ObjectSize(lab, l) /\ k < l})

RelabelComponentUnsorted(lab) == lab

\* sitk.RelabelComponent: labels are reassigned by decreasing object size,
\* so that label 1 is the largest object; equal sizes keep their order
RelabelComponent(lab) ==
    [n \in 1..NumVoxels |-> IF lab[n] = 0 THEN 0 ELSE ObjectRank(lab, lab[n])]

\* labeled_cc == 1
EqualsOne(lab) ==
    [n \in 1..NumVoxels |-> IF lab[n] = 1 THEN Foreground ELSE Background]

\* the body of the loop of KeepLargestComponent.apply_transform
KeepLargest(tensor) ==
    CHOOSE tensor_out \in
        {SitkToNib(EqualsOne(RelabelComponent(connected_components))) :
            connected_components \in {ConnectedComponent(AsSitk(tensor))}} : TRUE

\* assert image.data.ndim == 4 and image.data.shape[0] == 1
AssertSingleChannel(image) == image.nchan = 1

\* the images the loop reaches: all of them, or those before the first one
\* that fails the assertion
Reached(subject) ==
    {i \in 1..Len(subject) :
        \A j \in 1..i : AssertSingleChannel(subject[j])}

KLCInit ==
    /\ k_subject \in UNION {[1..n -> Images] : n \in 1..MaxImages}
    /\ k_prev = k_subject
    /\ k_calls = 0
    /\ k_status = "ok"

\* KeepLargestComponent.apply_transform
KLCApply ==
    /\ k_status = "ok"
    /\ k_calls < MaxCalls
    /\ k_prev' = k_subject
    /\ k_subject' =
         [i \in 1..Len(k_subject) |->
            IF i \in Reached(k_subject)
              THEN [nchan |-> 1, data |-> KeepLargest(k_subject[i].data)]
              ELSE k_subject[i]]
    /\ k_status' = IF Reached(k_subject) = 1..Len(k_subject)
                     THEN "ok" ELSE "AssertionError"
    /\ k_calls' = k_calls + 1
    /\ UNCHANGED <<c_vars, o_vars>>

KLCNext == KLCApply

(***************************************************************************)
(* Specifications.  Each one runs one machine; the objects of the other    *)
(* two are constructed and never called.                                   *)
(***************************************************************************)
ComposeUnused ==
    /\ c_transforms = << >>
    /\ c_p = 2
    /\ c_seeds = << >>
    /\ c_pc = "idle"
    /\ c_sample = << >>
    /\ c_i = 0
    /\ c_data = << >>
    /\ c_seedsArg = NoSeedsArg
    /\ c_gen = << >>
    /\ c_skipped = FALSE
    /\ c_result = << >>

KLCUnused ==
    /\ k_subject = << [nchan |-> 1, data |-> [c \in Coords |-> Background]] >>
    /\ k_prev = k_subject
    /\ k_calls = 0
    /\ k_status = "ok"

InitCompose == ComposeInit /\ OneOfInit /\ KLCUnused
InitOneOf == ComposeUnused /\ OneOfInit /\ KLCUnused
InitKLC == ComposeUnused /\ OneOfInit /\ KLCInit

SpecCompose == InitCompose /\ [][ComposeNext]_vars
SpecOneOf == InitOneOf /\ [][OneOfNext]_vars
SpecKLC == InitKLC /\ [][KLCNext]_vars

(***************************************************************************)
(* Properties of Compose                                                   *)
(***************************************************************************)
RECURSIVE Nested(_, _, _)
\* tn(... t2(t1(data, s1), s2) ..., sn)
Nested(ts, ss, data) ==
    IF ts = << >> THEN data
    ELSE CallTransform(ts[Len(ts)],
                       Nested(Front(ts), Front(ss), data),
                       ss[Len(ss)])

\* the call was made with no seeds or with as many seeds as transforms
SeedsCovered ==
    ~c_seedsArg.given \/ Len(c_seedsArg.val) = Len(c_transforms)

\* s1..sn: the seeds given, or the generated ones when none were given
SeedsInEffect == IF SeedsFalsy(c_seedsArg) THEN c_gen ELSE c_seedsArg.val

\* C1 as stated: every call with no seeds or with n seeds returns
\* tn(... t1(data, s1) ..., sn), each transform getting the previous output
\* and the seed at its own position.
C1_EveryCallIsNested ==
    (c_pc = "done" /\ SeedsCovered)
        => c_result = Nested(c_transforms, SeedsInEffect, c_data)

\* C1 amended: every call with no seeds or with n seeds that is not skipped
\* by the probability p of the composition itself returns
\* tn(... t1(data, s1) ..., sn), each transform getting the previous output
\* and the seed at its own position.
C1_AppliedCallIsNested ==
    (c_pc = "done" /\ SeedsCovered /\ ~c_skipped)
        => c_result = Nested(c_transforms, SeedsInEffect, c_data)

C1_Witness ==
    /\ c_pc = "done"
    /\ ~c_skipped
    /\ c_seedsArg.given
    /\ Len(c_transforms) = 2
    /\ Len(c_seedsArg.val) = 2
    /\ c_transforms[1] # c_transforms[2]
    /\ c_seedsArg.val[1] # c_seedsArg.val[2]
    /\ c_result = CallTransform(c_transforms[2],
                    CallTransform(c_transforms[1], c_data, c_seedsArg.val[1]),
                    c_seedsArg.val[2])

(***************************************************************************)
(* Properties of OneOf                                                     *)
(***************************************************************************)
RECURSIVE RatSum(_)
RatSum(rs) == IF rs = << >> THEN <<0, 1>> ELSE RatAdd(rs[1], RatSum(Tail(rs)))

\* C2: after a successful construction the stored probabilities are all
\* non-negative, their total is exactly one, and for a dictionary input each
\* stored value is the given weight divided by the sum of the given weights.
C2_ProbabilitiesSumToOne ==
    o_status = "ok" =>
        /\ \A i \in 1..Len(o_dict) : o_dict[i][2][1] >= 0 /\ o_dict[i][2][2] > 0
        /\ RatEq(RatSum(DictValues(o_dict)), <<1, 1>>)
        /\ o_input.kind = "dict" =>
             /\ Len(o_dict) = Len(o_input.keys)
             /\ \A i \in 1..Len(o_input.keys) :
                  \E j \in 1..Len(o_dict) :
                    /\ o_dict[j][1] = o_input.keys[i]
                    /\ RatEq(o_dict[j][2],
                             <<o_input.weights[i], SumSeq(o_input.weights)>>)

C4_ExactlyOneTransformApplied ==
    o_applied =>
        /\ Len(o_calls) = 1
        /\ \E j \in 1..Len(o_dict) :
             /\ o_dict[j][1] = o_calls[1][1]
             /\ o_dict[j][2][1] > 0
        /\ o_calls[1][2] = o_sample
        /\ o_result = CallTransform(o_calls[1][1], o_sample, NoSeed)

C4_Witness ==
    /\ o_applied
    /\ Len(o_dict) = 2
    /\ \E j \in 1..Len(o_dict) : o_dict[j][2][1] = 0
    /\ Len(o_calls) = 1
    /\ o_result = Append(o_sample, <<o_calls[1][1], NoSeed>>)

(***************************************************************************)
(* Properties of KeepLargestComponent                                      *)
(***************************************************************************)
Abs(n) == IF n < 0 THEN -n ELSE n

\* two voxels share a face
Adjacent(a, b) ==
    Abs(a[1] - b[1]) + Abs(a[2] - b[2]) + Abs(a[3] - b[3]) = 1

ForegroundOf(tensor) == {c \in Coords : tensor[c] # Background}

\* the voxels that share a face with a voxel
AdjacentTo == [c \in Coords |-> {d \in Coords : Adjacent(c, d)}]

\* `seen` and the voxels of `fg` that share a face with one of them
Touching(seen, fg) ==
    seen \cup {v \in fg : \E s \in seen : v \in AdjacentTo[s]}

RECURSIVE Reach(_, _)
Reach(seen, fg) ==
    CHOOSE part \in {IF more = seen THEN seen ELSE Reach(more, fg) :
                      more \in {Touching(seen, fg)}} : TRUE

\* the connected components of a set of voxels
ComponentsOf(fg) == {Reach({v}, fg) : v \in fg}

KeepsLargestOf(components, kept, out) ==
    /\ \A c \in Coords : out[c] \in {Background, Foreground}
    /\ kept \in components
    /\ \A comp \in components : Cardinality(comp) <= Cardinality(kept)

\* `out` is binary, its foreground is one connected component of the
\* foreground of `in`, and no component of `in` has more voxels
KeepsLargest(in, out) ==
    \E fg \in {ForegroundOf(in)}, kept \in {ForegroundOf(out)} :
        \E components \in {ComponentsOf(fg)} :
            KeepsLargestOf(components, kept, out)

\* C5 as stated: for every label image the output is a binary map whose
\* foreground is one connected component of the input foreground, none of
\* the other components is larger, everything else is background, and a
\* second application changes nothing.
C5_KeepsLargestOfEveryImage ==
    (k_status = "ok" /\ k_calls >= 1) =>
        /\ \A i \in 1..Len(k_subject) :
             KeepsLargest(k_prev[i].data, k_subject[i].data)
        /\ k_calls >= 2 => k_subject = k_prev

\* C5 amended: for every label image that has at least one foreground
\* voxel the output is a binary map whose foreground is one connected
\* component of the input foreground, none of the other components is
\* larger, everything else is background; and a second application changes
\* no image.
C5_KeepsLargestOfNonEmptyImage ==
    (k_status = "ok" /\ k_calls >= 1) =>
        /\ \A i \in 1..Len(k_subject) :
             ForegroundOf(k_prev[i].data) # {} =>
                KeepsLargest(k_prev[i].data, k_subject[i].data)
        /\ k_calls >= 2 => k_subject = k_prev

C5_Witness ==
    /\ k_status = "ok"
    /\ k_calls = 1
    /\ \E a, b \in ComponentsOf(ForegroundOf(k_prev[1].data)) :
         /\ Cardinality(a) < Cardinality(b)
         /\ ForegroundOf(k_subject[1].data) = b
         /\ \A c \in a : c[1] = 0

====
